---- MODULE Spec2Model ----
(***************************************************************************)
(* Model of tools/toolbox/documentation.py: the Doxygen config templater,  *)
(* the process runner and the documentation orchestrator (main).           *)
(*                                                                         *)
(* A text is a sequence of lexemes.  A lexeme is one character of the      *)
(* file ("@", "=", " ", "\n") or a run of characters that no pattern of    *)
(* the program splits (a placeholder's name, the directive's name, other   *)
(* text "x").  A placeholder "@NAME@" is the three lexemes "@","NAME","@", *)
(* so two placeholders can share an "@" exactly as they can in the file.   *)
(***************************************************************************)
EXTENDS Integers, Sequences, FiniteSets

\* ------------------------------------------------------------------ bounds

\* Longest template text (in lexemes) drawn by the templater specification.
MaxLen == 6
\* Largest exit code a child returns (0 is success).
MaxExit == 1
\* Most keyboard interrupts delivered in one run.
MaxInterrupts == 2

\* timeout of proc.wait(timeout=5), in seconds
GraceSeconds == 5

\* ------------------------------------------------------------------ state

VARIABLES
    pc,             \* position of the program in main
    outcome,        \* "running", "returned", "abort" (SystemExit), "interrupt"
                    \* (KeyboardInterrupt escaped), "error" (other exception escaped)
    message,        \* the SystemExit message, "" when none
    doxyfileExists, \* <root>/Doxyfile is present
    mkdocsExists,   \* <root>/mkdocs.yml is present
    template,       \* content of <root>/Doxyfile
    generated,      \* content of <root>/build/docs/doxygen/Doxyfile.generated
    writes,         \* number of writes of Doxyfile.generated
    outDirCreated,  \* <root>/build/docs/doxygen was created by this run
    status,         \* per child: "none", "running", "exited"
    code,           \* per child: its exit code once exited
    sent,           \* the signals the program sent to the mkdocs serve child
    elapsed,        \* seconds spent in proc.wait(timeout=5)
    interrupts,     \* keyboard interrupts delivered so far
    steps           \* the external steps taken, in order

vars == <<pc, outcome, message, doxyfileExists, mkdocsExists, template, generated,
          writes, outDirCreated, status, code, sent, elapsed, interrupts, steps>>

\* ------------------------------------------------------------------ texts

RECURSIVE Replace(_, _, _)
RECURSIVE SkipSpace(_, _)
RECURSIVE LineEnd(_, _)
RECURSIVE ReSubFrom(_, _)
RECURSIVE Contains(_, _)

\* _repo_root(): an absolute path, one lexeme.
Root == <<"/repo">>

\* root / "build" / "docs" / "doxygen"
OutputDir == Root \o <<"/build/docs/doxygen">>

Placeholder(name) == <<"@", name, "@">>

\* The replacements dictionary, in insertion order.
Replacements ==
    << <<Placeholder("CMAKE_SOURCE_DIR"), Root>>,
       <<Placeholder("PROJECT_NAME"), <<"Helipad">> >>,
       <<Placeholder("PROJECT_VERSION"), <<"dev">> >>,
       <<Placeholder("PROJECT_DESCRIPTION"), <<"Helipad", " ", "SDL3", " ", "engine">> >> >>

Drop(text, n) == SubSeq(text, n + 1, Len(text))

\* text occurs in t as a contiguous run
Contains(t, pat) ==
    IF Len(t) < Len(pat) THEN FALSE
    ELSE IF SubSeq(t, 1, Len(pat)) = pat THEN TRUE
    ELSE Contains(Tail(t), pat)

\* str.replace(old, new): every non-overlapping occurrence, leftmost first.
Replace(t, old, new) ==
    IF Len(t) < Len(old) THEN t
    ELSE IF SubSeq(t, 1, Len(old)) = old
         THEN new \o Replace(Drop(t, Len(old)), old, new)
         ELSE <<Head(t)>> \o Replace(Tail(t), old, new)

\* The loop over replacements.items(), with the last entry left out.
SubstituteSkipLast(text) ==
    LET r == Replacements
        t1 == Replace(text, r[1][1], r[1][2])
        t2 == Replace(t1, r[2][1], r[2][2])
    IN Replace(t2, r[3][1], r[3][2])

\* for placeholder, value in replacements.items(): text = text.replace(...)
Substitute(text) ==
    LET r == Replacements
        t1 == Replace(text, r[1][1], r[1][2])
        t2 == Replace(t1, r[2][1], r[2][2])
        t3 == Replace(t2, r[3][1], r[3][2])
    IN Replace(t3, r[4][1], r[4][2])

\* The characters \s matches.
Whitespace == {" ", "\t", "\n"}

\* The replacement of re.sub: f"OUTPUT_DIRECTORY       = {output_dir.as_posix()}"
NewDirective ==
    <<"OUTPUT_DIRECTORY", " ", " ", " ", " ", " ", " ", " ", "=", " ">> \o OutputDir

\* ^ under re.MULTILINE: at the start of the text or right after a newline.
AtLineStart(t, i) == i = 1 \/ t[i - 1] = "\n"

\* \s* (greedy): the first position from j on that holds no whitespace.
SkipSpace(t, j) ==
    IF j <= Len(t) /\ t[j] \in Whitespace THEN SkipSpace(t, j + 1) ELSE j

\* .*$ under re.MULTILINE: up to the next newline or the end of the text.
LineEnd(t, j) ==
    IF j <= Len(t) /\ t[j] # "\n" THEN LineEnd(t, j + 1) ELSE j

\* The pattern without its ^ anchor.
MatchEndUnanchored(t, i) ==
    IF t[i] = "OUTPUT_DIRECTORY"
    THEN LET j == SkipSpace(t, i + 1)
         IN IF j <= Len(t) /\ t[j] = "=" THEN LineEnd(t, j + 1) ELSE 0
    ELSE 0

\* r"^OUTPUT_DIRECTORY\s*=.*$" tried at position i: the position after the
\* match, 0 when it does not match there.
MatchEnd(t, i) ==
    IF AtLineStart(t, i) /\ t[i] = "OUTPUT_DIRECTORY"
    THEN LET j == SkipSpace(t, i + 1)
         IN IF j <= Len(t) /\ t[j] = "=" THEN LineEnd(t, j + 1) ELSE 0
    ELSE 0

\* re.sub from position i on: each match replaced, the rest copied.
ReSubFrom(t, i) ==
    IF i > Len(t) THEN <<>>
    ELSE LET e == MatchEnd(t, i)
         IN IF e > 0 THEN NewDirective \o ReSubFrom(t, e)
            ELSE <<t[i]>> \o ReSubFrom(t, i + 1)

\* re.sub(pattern, replacement, text, flags=re.MULTILINE)
ReSub(text) == ReSubFrom(text, 1)

\* The text _prepare_doxygen_config writes.
GeneratedText(text) == ReSub(Substitute(text))

\* ------------------------------------------------------------------ program

\* The children run through _run, and the one started with Popen.
RunChildren == {"doxygen", "build"}
Children == RunChildren \cup {"serve"}

ExitCodes == 0..MaxExit

SpawnPc(c) == IF c = "doxygen" THEN "doxygen_spawn" ELSE "build_spawn"
WaitPc(c) == IF c = "doxygen" THEN "doxygen_wait" ELSE "build_wait"
\* Where the caller of _run goes on: generate_source_docs returns to main, which
\* calls generate_user_docs; generate_user_docs goes on to the serve step.
AfterRunPc(c) == IF c = "doxygen" THEN "user_docs" ELSE "serve_spawn"

\* raise SystemExit(msg)
Abort(msg) ==
    /\ pc' = "done"
    /\ outcome' = "abort"
    /\ message' = msg

\* An exception that nothing catches leaves main.
Escape(kind) ==
    /\ pc' = "done"
    /\ outcome' = kind
    /\ message' = message

\* generate_source_docs without the check that the template exists
GenerateSourceDocsNoCheck ==
    /\ pc = "main"
    /\ pc' = "prepare"
    /\ UNCHANGED <<outcome, message>>
    /\ UNCHANGED <<doxyfileExists, mkdocsExists, template, generated, writes,
                   outDirCreated, status, code, sent, elapsed, interrupts, steps>>

\* generate_source_docs, up to the call of _prepare_doxygen_config
GenerateSourceDocs ==
    /\ pc = "main"
    /\ IF doxyfileExists
       THEN pc' = "prepare" /\ UNCHANGED <<outcome, message>>
       ELSE Abort("missing Doxygen config")
    /\ UNCHANGED <<doxyfileExists, mkdocsExists, template, generated, writes,
                   outDirCreated, status, code, sent, elapsed, interrupts, steps>>

\* _prepare_doxygen_config writing its text over the template it read
PrepareDoxygenConfigInPlace ==
    /\ pc = "prepare"
    /\ outDirCreated' = TRUE
    /\ template' = GeneratedText(template)
    /\ steps' = Append(steps, "write")
    /\ pc' = "doxygen_spawn"
    /\ UNCHANGED <<outcome, message, doxyfileExists, mkdocsExists, generated, writes,
                   status, code, sent, elapsed, interrupts>>

\* _prepare_doxygen_config: read the template, create the output directory,
\* substitute, rewrite the directive, write the generated file.
PrepareDoxygenConfig ==
    /\ pc = "prepare"
    /\ outDirCreated' = TRUE
    /\ generated' = GeneratedText(template)
    /\ writes' = writes + 1
    /\ steps' = Append(steps, "write")
    /\ pc' = "doxygen_spawn"
    /\ UNCHANGED <<outcome, message, doxyfileExists, mkdocsExists, template,
                   status, code, sent, elapsed, interrupts>>

\* subprocess.run starts the child.
RunSpawn(c) ==
    /\ pc = SpawnPc(c)
    /\ status' = [status EXCEPT ![c] = "running"]
    /\ steps' = Append(steps, c)
    /\ pc' = WaitPc(c)
    /\ UNCHANGED <<outcome, message, doxyfileExists, mkdocsExists, template,
                   generated, writes, outDirCreated, code, sent, elapsed, interrupts>>

\* subprocess.run cannot start the child: its OSError leaves main.
RunSpawnFails(c) ==
    /\ pc = SpawnPc(c)
    /\ Escape("error")
    /\ UNCHANGED <<doxyfileExists, mkdocsExists, template, generated, writes,
                   outDirCreated, status, code, sent, elapsed, interrupts, steps>>

\* A running child exits with some exit code (the environment's step).
ChildExit(c) ==
    /\ status[c] = "running"
    /\ \E k \in ExitCodes :
          /\ status' = [status EXCEPT ![c] = "exited"]
          /\ code' = [code EXCEPT ![c] = k]
    /\ UNCHANGED <<pc, outcome, message, doxyfileExists, mkdocsExists, template,
                   generated, writes, outDirCreated, sent, elapsed, interrupts, steps>>

\* _run that never looks at the return code
RunReturnUnchecked(c) ==
    /\ pc = WaitPc(c)
    /\ status[c] = "exited"
    /\ pc' = AfterRunPc(c)
    /\ UNCHANGED <<outcome, message>>
    /\ UNCHANGED <<doxyfileExists, mkdocsExists, template, generated, writes,
                   outDirCreated, status, code, sent, elapsed, interrupts, steps>>

\* _run that does not wait for the child
RunReturnNoWait(c) ==
    /\ pc = WaitPc(c)
    /\ pc' = AfterRunPc(c)
    /\ UNCHANGED <<outcome, message>>
    /\ UNCHANGED <<doxyfileExists, mkdocsExists, template, generated, writes,
                   outDirCreated, status, code, sent, elapsed, interrupts, steps>>

\* _run once the child has exited: abort on a non-zero return code.
RunReturn(c) ==
    /\ pc = WaitPc(c)
    /\ status[c] = "exited"
    /\ IF code[c] # 0
       THEN Abort("command failed")
       ELSE pc' = AfterRunPc(c) /\ UNCHANGED <<outcome, message>>
    /\ UNCHANGED <<doxyfileExists, mkdocsExists, template, generated, writes,
                   outDirCreated, status, code, sent, elapsed, interrupts, steps>>

\* generate_user_docs, up to the call of _run for mkdocs build
GenerateUserDocs ==
    /\ pc = "user_docs"
    /\ IF mkdocsExists
       THEN pc' = "build_spawn" /\ UNCHANGED <<outcome, message>>
       ELSE Abort("missing MkDocs config")
    /\ UNCHANGED <<doxyfileExists, mkdocsExists, template, generated, writes,
                   outDirCreated, status, code, sent, elapsed, interrupts, steps>>

\* proc = subprocess.Popen(serve_cmd, cwd=root), then proc.wait() blocks.
Popen ==
    /\ pc = "serve_spawn"
    /\ status' = [status EXCEPT !["serve"] = "running"]
    /\ steps' = Append(steps, "serve")
    /\ pc' = "serve_wait"
    /\ UNCHANGED <<outcome, message, doxyfileExists, mkdocsExists, template,
                   generated, writes, outDirCreated, code, sent, elapsed, interrupts>>

\* Popen raises: except Exception turns it into SystemExit.
PopenFails ==
    /\ pc = "serve_spawn"
    /\ Abort("failed to start mkdocs serve")
    /\ UNCHANGED <<doxyfileExists, mkdocsExists, template, generated, writes,
                   outDirCreated, status, code, sent, elapsed, interrupts, steps>>

\* Normal return of main.
Return ==
    /\ pc' = "done"
    /\ outcome' = "returned"
    /\ message' = message

\* proc.wait() returns: the return code is not looked at.
ServeWaitReturn ==
    /\ pc = "serve_wait"
    /\ status["serve"] = "exited"
    /\ Return
    /\ UNCHANGED <<doxyfileExists, mkdocsExists, template, generated, writes,
                   outDirCreated, status, code, sent, elapsed, interrupts, steps>>

\* One second of proc.wait(timeout=5) passes with the child still running.
Tick ==
    /\ pc = "grace"
    /\ status["serve"] = "running"
    /\ elapsed < GraceSeconds
    /\ elapsed' = elapsed + 1
    /\ UNCHANGED <<pc, outcome, message, doxyfileExists, mkdocsExists, template, generated,
                   writes, outDirCreated, status, code, sent, interrupts, steps>>

\* proc.wait(timeout=5) returns: the child exited within the timeout.
GraceReturn ==
    /\ pc = "grace"
    /\ status["serve"] = "exited"
    /\ Return
    /\ UNCHANGED <<doxyfileExists, mkdocsExists, template, generated, writes,
                   outDirCreated, status, code, sent, elapsed, interrupts, steps>>

\* The handler with proc.kill() called without waiting for the timeout
GraceExpiredEarly ==
    /\ pc = "grace"
    /\ sent' = Append(sent, "kill")
    /\ Return
    /\ UNCHANGED <<doxyfileExists, mkdocsExists, template, generated, writes,
                   outDirCreated, status, code, elapsed, interrupts, steps>>

\* proc.wait(timeout=5) raises TimeoutExpired: except Exception: proc.kill()
GraceExpired ==
    /\ pc = "grace"
    /\ status["serve"] = "running"
    /\ elapsed = GraceSeconds
    /\ sent' = Append(sent, "kill")
    /\ Return
    /\ UNCHANGED <<doxyfileExists, mkdocsExists, template, generated, writes,
                   outDirCreated, status, code, elapsed, interrupts, steps>>

\* A keyboard interrupt arrives while proc.wait() blocks: except KeyboardInterrupt
\* prints, calls proc.terminate() and enters proc.wait(timeout=5).
InterruptServeWait ==
    /\ pc = "serve_wait"
    /\ interrupts < MaxInterrupts
    /\ interrupts' = interrupts + 1
    /\ sent' = Append(sent, "terminate")
    /\ elapsed' = 0
    /\ pc' = "grace"
    /\ UNCHANGED <<outcome, message, doxyfileExists, mkdocsExists, template, generated,
                   writes, outDirCreated, status, code, steps>>

\* A keyboard interrupt arrives anywhere else.  No handler catches it (the one
\* around proc.wait(timeout=5) is except Exception, and KeyboardInterrupt is not
\* an Exception), so it leaves main; inside subprocess.run the child is killed
\* and waited for first.
InterruptEscapes ==
    /\ pc \notin {"serve_wait", "done"}
    /\ interrupts < MaxInterrupts
    /\ interrupts' = interrupts + 1
    /\ Escape("interrupt")
    /\ IF \E c \in RunChildren : pc = WaitPc(c) /\ status[c] = "running"
       THEN \E c \in RunChildren, k \in ExitCodes \ {0} :
               /\ pc = WaitPc(c)
               /\ status' = [status EXCEPT ![c] = "exited"]
               /\ code' = [code EXCEPT ![c] = k]
       ELSE UNCHANGED <<status, code>>
    /\ UNCHANGED <<doxyfileExists, mkdocsExists, template, generated, writes,
                   outDirCreated, sent, elapsed, steps>>

\* ------------------------------------------------------------------ specifications

\* Doxyfile contents the runs of main start from.
MainTemplates ==
    { <<"x">>,
      <<"OUTPUT_DIRECTORY", " ", "=", " ", "x", "\n", "@", "PROJECT_NAME", "@">> }

InitProgram ==
    /\ pc = "main"
    /\ outcome = "running"
    /\ message = ""
    /\ generated = <<>>
    /\ writes = 0
    /\ outDirCreated = FALSE
    /\ status = [c \in Children |-> "none"]
    /\ code = [c \in Children |-> 0]
    /\ sent = <<>>
    /\ elapsed = 0
    /\ interrupts = 0
    /\ steps = <<>>

Init ==
    /\ InitProgram
    /\ doxyfileExists \in BOOLEAN
    /\ mkdocsExists \in BOOLEAN
    /\ template \in (IF doxyfileExists THEN MainTemplates ELSE {<<>>})

Next ==
    \/ GenerateSourceDocs
    \/ PrepareDoxygenConfig
    \/ \E c \in RunChildren : RunSpawn(c)
    \/ \E c \in RunChildren : RunSpawnFails(c)
    \/ \E c \in Children : ChildExit(c)
    \/ \E c \in RunChildren : RunReturn(c)
    \/ GenerateUserDocs
    \/ Popen
    \/ PopenFails
    \/ ServeWaitReturn
    \/ Tick
    \/ GraceReturn
    \/ GraceExpired
    \/ InterruptServeWait
    \/ InterruptEscapes

Spec == Init /\ [][Next]_vars

\* The templater on every template text up to MaxLen lexemes.
TokenAlphabet ==
    {"@", "CMAKE_SOURCE_DIR", "PROJECT_NAME", "PROJECT_VERSION", "PROJECT_DESCRIPTION"}
DirectiveAlphabet == {"OUTPUT_DIRECTORY", " ", "\n", "=", "x"}

TextsUpTo(alphabet, n) == UNION {[1..k -> alphabet] : k \in 0..n}
TextsOver(alphabet) == TextsUpTo(alphabet, MaxLen)

\* A placeholder with directive text before and after it.
MixedTexts ==
    { t[1] \o Placeholder("PROJECT_NAME") \o t[2] :
        t \in { u \in TextsUpTo(DirectiveAlphabet, MaxLen - 3)
                        \X TextsUpTo(DirectiveAlphabet, MaxLen - 3) :
                    Len(u[1]) + Len(u[2]) <= MaxLen - 3 } }

InitText ==
    /\ InitProgram
    /\ doxyfileExists = TRUE
    /\ mkdocsExists = TRUE
    /\ template \in TextsOver(TokenAlphabet) \cup TextsOver(DirectiveAlphabet) \cup MixedTexts

NextText ==
    \/ GenerateSourceDocs
    \/ PrepareDoxygenConfig

SpecText == InitText /\ [][NextText]_vars

\* ------------------------------------------------------------------ properties

RECURSIVE SplitLines(_)
RECURSIVE RewriteLines(_)
RECURSIVE BlankLinesBefore(_)

HasNewline(t) == \E i \in 1..Len(t) : t[i] = "\n"
FirstNewline(t) == CHOOSE i \in 1..Len(t) : t[i] = "\n" /\ \A m \in 1..(i - 1) : t[m] # "\n"

\* The lines of a text, without their newlines.
SplitLines(t) ==
    IF HasNewline(t)
    THEN <<SubSeq(t, 1, FirstNewline(t) - 1)>> \o SplitLines(Drop(t, FirstNewline(t)))
    ELSE <<t>>

Blanks == {" ", "\t"}
IsBlank(l) == \A i \in 1..Len(l) : l[i] \in Blanks
\* The first lexeme of a line that is not a blank is "=".
StartsWithEquals(l) ==
    \E i \in 1..Len(l) : l[i] = "=" /\ \A m \in 1..(i - 1) : l[m] \in Blanks

\* A directive that starts its line: OUTPUT_DIRECTORY, blanks, "=".
IsDirective(l) == Len(l) > 0 /\ l[1] = "OUTPUT_DIRECTORY" /\ StartsWithEquals(Tail(l))
\* The same, indented or not.
IsDirectiveAnywhere(l) ==
    \E i \in 1..Len(l) :
        /\ \A m \in 1..(i - 1) : l[m] \in Blanks
        /\ IsDirective(Drop(l, i - 1))
\* A line that holds OUTPUT_DIRECTORY and blanks only.
IsBareName(l) == Len(l) > 0 /\ l[1] = "OUTPUT_DIRECTORY" /\ IsBlank(Tail(l))

\* The number of blank lines a sequence of lines starts with.
BlankLinesBefore(ls) ==
    IF ls # <<>> /\ IsBlank(Head(ls)) THEN 1 + BlankLinesBefore(Tail(ls)) ELSE 0

\* The number of lines the directive starting at the first line spans, 0 when
\* no directive starts there: one line, or a bare name, blank lines and a line
\* that starts with "=".
SpanLength(ls) ==
    IF IsDirective(Head(ls)) THEN 1
    ELSE IF IsBareName(Head(ls))
         THEN LET n == BlankLinesBefore(Tail(ls))
              IN IF n + 2 <= Len(ls) /\ StartsWithEquals(ls[n + 2]) THEN n + 2 ELSE 0
         ELSE 0

\* Line by line: a directive becomes the new directive, any other line stays.
RewriteLines(ls) ==
    IF ls = <<>> THEN <<>>
    ELSE IF SpanLength(ls) > 0
         THEN <<NewDirective>> \o RewriteLines(Drop(ls, SpanLength(ls)))
         ELSE <<Head(ls)>> \o RewriteLines(Tail(ls))

IsPrefix(a, b) == Len(a) <= Len(b) /\ SubSeq(b, 1, Len(a)) = a

C2_ShutdownOrder ==
    /\ [](sent \in {<<>>, <<"terminate">>, <<"terminate", "kill">>})
    /\ [](pc = "grace" => sent = <<"terminate">> /\ elapsed <= GraceSeconds)
    /\ [][sent' # sent =>
            \/ pc = "serve_wait" /\ sent = <<>> /\ sent' = <<"terminate">>
            \/ /\ pc = "grace" /\ sent = <<"terminate">> /\ sent' = <<"terminate", "kill">>
               /\ elapsed = GraceSeconds /\ status["serve"] = "running"]_vars

C2_Witness == sent = <<"terminate", "kill">> /\ outcome = "returned"

\* C3: once the mkdocs serve child is spawned no interrupt leaves
\* generate_user_docs: the program ends by returning normally.
C3_InterruptHandledLocally ==
    status["serve"] # "none" => (outcome # "interrupt" /\ (pc = "done" => outcome = "returned"))

\* C4: with Doxyfile absent the program aborts with its message and has created no
\* directory, written no config and started no child; with mkdocs.yml absent it
\* aborts with its message and starts neither mkdocs build nor mkdocs serve.
C4_MissingFileAborts ==
    /\ ~doxyfileExists =>
          /\ ~outDirCreated /\ writes = 0 /\ steps = <<>>
          /\ \A c \in Children : status[c] = "none"
          /\ pc \in {"main", "done"}
          /\ (pc = "done" =>
                \/ outcome = "abort" /\ message = "missing Doxygen config"
                \/ outcome = "interrupt")
    /\ ~mkdocsExists =>
          /\ status["build"] = "none" /\ status["serve"] = "none"
          /\ pc \in {"main", "prepare", "doxygen_spawn", "doxygen_wait", "user_docs", "done"}
          /\ outcome # "returned"
          /\ (outcome = "abort" /\ status["doxygen"] = "exited" /\ code["doxygen"] = 0
                => message = "missing MkDocs config")

C4_Witness ==
    /\ ~doxyfileExists /\ outcome = "abort" /\ message = "missing Doxygen config"

C6_DirectiveRewritten ==
    writes > 0 =>
        LET before == SplitLines(Substitute(template))
            after == SplitLines(generated)
        IN /\ \A i \in 1..Len(after) : IsDirective(after[i]) => after[i] = NewDirective
           /\ (\E i \in 1..Len(before) : IsDirective(before[i]))
                 => \E i \in 1..Len(after) : after[i] = NewDirective
           /\ after = RewriteLines(before)

C6_Witness ==
    /\ writes > 0
    /\ \E i \in 1..Len(SplitLines(template)) :
          /\ IsDirective(SplitLines(template)[i])
          /\ SplitLines(template)[i] # NewDirective
    /\ \E i \in 1..Len(SplitLines(template)) : ~IsDirective(SplitLines(template)[i])
    /\ \E i \in 1..Len(SplitLines(generated)) : SplitLines(generated)[i] = NewDirective

\* C6 (as stated): for every template the written config holds the new directive,
\* no directive keeps its value, and every line that is no directive is unchanged
\* apart from placeholder substitution.
C6_AlwaysHasDirective ==
    writes > 0 =>
        LET before == SplitLines(Substitute(template))
            after == SplitLines(generated)
        IN /\ \E i \in 1..Len(after) : after[i] = NewDirective
           /\ \A i \in 1..Len(after) :
                 IsDirectiveAnywhere(after[i]) => after[i] = NewDirective
           /\ Len(after) = Len(before)
           /\ \A i \in 1..Len(before) :
                 ~IsDirectiveAnywhere(before[i]) => after[i] = before[i]

\* C7: the external steps happen in the order write, doxygen, mkdocs build, mkdocs
\* serve; doxygen starts only after the config is written, mkdocs build only after
\* doxygen exited 0, mkdocs serve only after mkdocs build exited 0.
C7_StepOrder ==
    /\ IsPrefix(steps, <<"write", "doxygen", "build", "serve">>)
    /\ status["doxygen"] # "none" => writes = 1
    /\ status["build"] # "none" => (status["doxygen"] = "exited" /\ code["doxygen"] = 0)
    /\ status["serve"] # "none" => (status["build"] = "exited" /\ code["build"] = 0)

C7_Witness == steps = <<"write", "doxygen", "build", "serve">>

\* C8: at most one child is running, and while one runs every child started
\* before it has exited.
C8_OneChildAlive ==
    /\ Cardinality({c \in Children : status[c] = "running"}) <= 1
    /\ status["build"] = "running" => status["doxygen"] = "exited"
    /\ status["serve"] = "running" =>
          (status["doxygen"] = "exited" /\ status["build"] = "exited")

C8_Witness ==
    status["serve"] = "running" /\ status["doxygen"] = "exited" /\ status["build"] = "exited"

\* C9 (as amended): the generated config is written at most once in a run, exactly
\* once before doxygen is started, and once written no later step changes it; the
\* template Doxyfile is never written.
C9_WrittenAtMostOnce ==
    /\ [](writes <= 1)
    /\ [](pc \notin {"main", "prepare", "done"} => writes = 1)
    /\ [](status["doxygen"] # "none" => writes = 1)
    /\ [][writes = 1 => (writes' = 1 /\ generated' = generated)]_vars
    /\ [][template' = template /\ doxyfileExists' = doxyfileExists]_vars

C9_Witness ==
    /\ pc = "done" /\ writes = 1 /\ sent = <<"terminate", "kill">>
    /\ generated = GeneratedText(template)

\* C9 (as stated): in every run the generated config is written exactly once.
C9_WrittenExactlyOnce == pc = "done" => writes = 1

\* C10: when the program has ended after spawning the mkdocs serve child, the child
\* has exited or has been sent kill.
C10_ServeStopped ==
    (pc = "done" /\ status["serve"] # "none") =>
        (status["serve"] = "exited" \/ sent = <<"terminate", "kill">>)

====
